---- MODULE Spec2Model ----
(***************************************************************************)
(* Model of src/src/solver.py: the batch driver (__main__), parse_input,   *)
(* the MILP built by solve_tsp_drone (variables x, y, u, the objective and *)
(* the five constraint families), the outcome of model.optimize() and      *)
(* plot_rota.                                                               *)
(*                                                                          *)
(* The MILP engine is external.  optimize() is modelled by what it         *)
(* guarantees: with status OPTIMAL the values satisfy every constraint and *)
(* minimise the objective (exactly: the engine's optimality gap is not     *)
(* modelled); when the time limit ends the search the values, if any,      *)
(* satisfy every constraint.  Binary values are kept as the set of arcs    *)
(* whose variable is 1.  The diagonal variables x[i,i], y[i,i] occur in no *)
(* constraint, not in the objective and are skipped by plot_rota; they are *)
(* left out.                                                                *)
(***************************************************************************)
EXTENDS FiniteSets, Integers, Sequences, TLC

\* Bounds of the explored inputs.
MaxN == 3        \* coordinate lines of an instance file
MaxCoord == 1    \* coordinates range over 0..MaxCoord
MaxR == 2        \* drone range R in 0..MaxR
MaxK == 2        \* truck factor K in 1..MaxK
MaxFiles == 2    \* files found by glob

\* Distances are kept in fixed point, floor(Scale * sqrt(.)).
Scale == 10 * 100

VARIABLES numFiles, idx, pc, R, K, coordenadas, model, status, solCount,
          x, y, objVal, arcos_caminhao, arcos_drone, saved, erro

vars == <<numFiles, idx, pc, R, K, coordenadas, model, status, solCount,
          x, y, objVal, arcos_caminhao, arcos_drone, saved, erro>>

None == "None"

-----------------------------------------------------------------------------
(* Instance files.  A line is the sequence of its whitespace-separated     *)
(* tokens; a token is an integer literal or some other text.               *)

IntTok(v) == [int |-> TRUE, val |-> v]
TxtTok == [int |-> FALSE, val |-> 0]

Coord == 0..MaxCoord

HeaderLines(vals) == {<<>>, <<TxtTok>>} \cup {<<IntTok(v)>> : v \in vals}

BodyLines == {<<>>, <<IntTok(0)>>, <<TxtTok, IntTok(0)>>}
             \cup {<<IntTok(a), IntTok(b)>> : a \in Coord, b \in Coord}

Bodies == UNION {[1..k -> BodyLines] : k \in 0..MaxN}

GridFiles == [line1 : HeaderLines(0..MaxR), line2 : HeaderLines(1..MaxK),
              body : Bodies]

\* Scenario B of the specification: depot (0,0), customers (1,0), (0,10),
\* (10,10), R = 5, K = 3.
CenarioB == [line1 |-> <<IntTok(5)>>, line2 |-> <<IntTok(3)>>,
             body |-> << <<IntTok(0), IntTok(0)>>, <<IntTok(1), IntTok(0)>>,
                         <<IntTok(0), IntTok(10)>>, <<IntTok(10), IntTok(10)>> >>]

CoordsB == << <<0, 0>>, <<1, 0>>, <<0, 10>>, <<10, 10>> >>

FileContents == GridFiles \cup {CenarioB}

\* int(s): the line or token must be one integer literal.
IntOk(toks) == Len(toks) = 1 /\ toks[1].int

ValueError == "ValueError"

RECURSIVE ParseCoords(_, _, _)
ParseCoords(body, k, acc) ==
    IF k > Len(body) THEN acc
    ELSE LET parts == body[k] IN
         IF Len(parts) >= 2
         THEN IF parts[1].int /\ parts[2].int
              THEN ParseCoords(body, k + 1,
                               Append(acc, <<parts[1].val, parts[2].val>>))
              ELSE ValueError
         ELSE ParseCoords(body, k + 1, acc)

ParseFail == [R |-> None, K |-> None, coordenadas |-> <<>>]

parse_input(f) ==
    IF f.line1 = <<>> \/ f.line2 = <<>> THEN ParseFail
    ELSE IF ~IntOk(f.line1) \/ ~IntOk(f.line2) THEN ParseFail
    ELSE LET cs == ParseCoords(f.body, 1, <<>>) IN
         IF cs = ValueError THEN ParseFail
         ELSE [R |-> f.line1[1].val, K |-> f.line2[1].val, coordenadas |-> cs]

\* `if coords:` in the batch loop.
TemNos_vazio1(coords) == Len(coords) > 1
TemNos(coords) == coords # <<>>

-----------------------------------------------------------------------------
(* distancia, in fixed point.                                               *)

RECURSIVE SqrtBusca(_, _, _)
SqrtBusca(v, lo, hi) ==
    IF lo = hi THEN lo
    ELSE LET mid == (lo + hi + 1) \div 2 IN
         IF mid * mid <= v THEN SqrtBusca(v, mid, hi)
         ELSE SqrtBusca(v, lo, mid - 1)

ISqrt(v) == SqrtBusca(v, 0, IF v < 46340 THEN v ELSE 46340)

Dist2(p, q) == (q[1] - p[1]) * (q[1] - p[1]) + (q[2] - p[2]) * (q[2] - p[2])

distancia(p, q) == ISqrt(Dist2(p, q) * Scale * Scale)

-----------------------------------------------------------------------------
(* The MILP of solve_tsp_drone.                                             *)

Nodes(n) == 0..(n - 1)
Clientes(n) == 1..(n - 1)
Arcs(n) == {a \in Nodes(n) \X Nodes(n) : a[1] # a[2]}

\* quicksum(v[i,k] for i in range(n) if i != k)
InSum(n, v, k) == Cardinality({i \in Nodes(n) \ {k} : <<i, k>> \in v})
\* quicksum(v[k,j] for j in range(n) if j != k)
OutSum(n, v, k) == Cardinality({j \in Nodes(n) \ {k} : <<k, j>> \in v})

\* Objective coefficients.
CustoCaminhao(k, coords) ==
    [a \in Arcs(Len(coords)) |-> k * distancia(coords[a[1] + 1], coords[a[2] + 1])]
CustoDrone(coords) ==
    [a \in Arcs(Len(coords)) |-> 2 * distancia(coords[a[1] + 1], coords[a[2] + 1])]

\* 1. visit_j
visit_comDeposito(n, xs, ys) ==
    \A j \in Clientes(n) : InSum(n, xs, j) + InSum(n, ys, j) = 1
visit_de2(n, xs, ys) ==
    \A j \in 2..(n - 1) :
        InSum(n, xs, j)
        + Cardinality({i \in Clientes(n) \ {j} : <<i, j>> \in ys}) = 1
visit(n, xs, ys) ==
    \A j \in Clientes(n) :
        InSum(n, xs, j)
        + Cardinality({i \in Clientes(n) \ {j} : <<i, j>> \in ys}) = 1

\* 2. flow_truck_k
flow_truck(n, xs) ==
    \A k \in Nodes(n) : InSum(n, xs, k) = OutSum(n, xs, k)

\* 3. drone_launch_k
drone_launch_de2(n, xs, ys) ==
    \A k \in 2..(n - 1) : OutSum(n, ys, k) <= n * InSum(n, xs, k)
drone_launch(n, xs, ys) ==
    \A k \in Clientes(n) : OutSum(n, ys, k) <= n * InSum(n, xs, k)

\* 4. radius_i_j: the arcs whose y is fixed to 0.
radius_semDeposito(r, coords) ==
    {a \in Arcs(Len(coords)) :
        a[1] # 0 /\ distancia(coords[a[1] + 1], coords[a[2] + 1]) > r * Scale}
radius_mais1(r, coords) ==
    {a \in Arcs(Len(coords)) :
        distancia(coords[a[1] + 1], coords[a[2] + 1]) > (r + 1) * Scale}
radius(r, coords) ==
    {a \in Arcs(Len(coords)) :
        distancia(coords[a[1] + 1], coords[a[2] + 1]) > r * Scale}

\* 5. subtour_i_j (MTZ).  u is continuous and non-negative in the program.
\* If any real u satisfies the rows, the selected arcs have no cycle among
\* the customers, and then the longest-path depths, integers in 0..n-2,
\* satisfy them too; integer potentials in 0..n-1 lose no x.
subtour(n, xs) ==
    \E u \in [Clientes(n) -> 0..(n - 1)] :
        \A i \in Clientes(n) : \A j \in Clientes(n) \ {i} :
            u[i] - u[j] + n * (IF <<i, j>> \in xs THEN 1 ELSE 0) <= n - 1

NoModel == [n |-> 0, cx |-> <<>>, cy |-> <<>>, radius |-> {}]

BuildModelo(r, k, coords) ==
    [n |-> Len(coords), cx |-> CustoCaminhao(k, coords),
     cy |-> CustoDrone(coords), radius |-> radius(r, coords)]

\* Truck values meeting the rows that mention x only.
XFeasible(m) ==
    {xs \in SUBSET Arcs(m.n) : flow_truck(m.n, xs) /\ subtour(m.n, xs)}

\* Every assignment that satisfies all rows of the model.
Feasible(m) ==
    UNION {{[x |-> xs, y |-> ys] :
               ys \in {t \in SUBSET (Arcs(m.n) \ m.radius) :
                          visit(m.n, xs, t) /\ drone_launch(m.n, xs, t)}} :
           xs \in XFeasible(m)}

RECURSIVE SomaCusto(_, _)
SomaCusto(c, s) ==
    IF s = {} THEN 0
    ELSE LET a == CHOOSE b \in s : TRUE IN c[a] + SomaCusto(c, s \ {a})

ObjValue(m, a) == SomaCusto(m.cx, a.x) + SomaCusto(m.cy, a.y)

Optimal(m) ==
    LET F == Feasible(m)
        costs == {ObjValue(m, a) : a \in F}
        best == CHOOSE c \in costs : \A d \in costs : c <= d
    IN {a \in F : ObjValue(m, a) = best}

-----------------------------------------------------------------------------
(* The batch driver and the pipeline of one instance.                       *)

Init ==
    /\ numFiles \in 0..MaxFiles
    /\ idx = 0
    /\ pc = "loop"
    /\ R = None /\ K = None /\ coordenadas = <<>>
    /\ model = NoModel
    /\ status = "" /\ solCount = 0 /\ x = {} /\ y = {} /\ objVal = 0
    /\ arcos_caminhao = {} /\ arcos_drone = {}
    /\ saved = FALSE /\ erro = ""

solveVars == <<model, status, solCount, x, y, objVal>>
plotVars == <<arcos_caminhao, arcos_drone, saved>>
inputVars == <<R, K, coordenadas>>

\* for filepath in instance_files: parse_input(filepath); if coords: ...
ParseInput ==
    /\ pc = "loop" /\ idx < numFiles
    /\ \E f \in FileContents :
          LET r == parse_input(f) IN
          /\ R' = r.R /\ K' = r.K /\ coordenadas' = r.coordenadas
          /\ pc' = IF TemNos(r.coordenadas) THEN "solve" ELSE "fim"
    /\ idx' = idx + 1
    /\ UNCHANGED <<numFiles, solveVars, plotVars, erro>>

\* gp.Model("TSP_Drone") succeeds.
CreateModel ==
    /\ pc = "solve"
    /\ pc' = "modelo"
    /\ UNCHANGED <<numFiles, idx, inputVars, solveVars, plotVars, erro>>

\* gp.Model raises GurobiError: caught, solve_tsp_drone returns.
CreateModelFails ==
    /\ pc = "solve"
    /\ pc' = "fim" /\ erro' = "licenca"
    /\ UNCHANGED <<numFiles, idx, inputVars, solveVars, plotVars>>

\* addVars, setObjective, the five addConstr loops, setParam.
BuildModel ==
    /\ pc = "modelo"
    /\ model' = BuildModelo(R, K, coordenadas)
    /\ pc' = "built"
    /\ UNCHANGED <<numFiles, idx, inputVars, status, solCount, x, y, objVal,
                   plotVars, erro>>

\* A GurobiError raised by addVars/addConstr/optimize is caught nowhere.
SolverError ==
    /\ pc \in {"modelo", "built"}
    /\ pc' = "crashed" /\ erro' = "GurobiError"
    /\ UNCHANGED <<numFiles, idx, inputVars, solveVars, plotVars>>

OptimizeOptimal ==
    /\ pc = "built"
    /\ \E a \in Optimal(model) :
          /\ x' = a.x /\ y' = a.y /\ objVal' = ObjValue(model, a)
    /\ status' = "OPTIMAL" /\ solCount' = 1
    /\ pc' = "optimized"
    /\ UNCHANGED <<numFiles, idx, inputVars, model, plotVars, erro>>

\* The time limit ends the search with an incumbent.
OptimizeTimeLimit ==
    /\ pc = "built"
    /\ \E a \in Feasible(model) :
          /\ x' = a.x /\ y' = a.y /\ objVal' = ObjValue(model, a)
    /\ status' = "TIME_LIMIT" /\ solCount' = 1
    /\ pc' = "optimized"
    /\ UNCHANGED <<numFiles, idx, inputVars, model, plotVars, erro>>

\* The time limit ends the search before any solution is found.
OptimizeNoSolution ==
    /\ pc = "built"
    /\ status' = "TIME_LIMIT" /\ solCount' = 0
    /\ pc' = "optimized"
    /\ UNCHANGED <<numFiles, idx, inputVars, model, x, y, objVal, plotVars, erro>>

\* else: print("Solução ótima não encontrada.")
NotOptimal ==
    /\ pc = "optimized" /\ status # "OPTIMAL"
    /\ pc' = "fim"
    /\ UNCHANGED <<numFiles, idx, inputVars, solveVars, plotVars, erro>>

\* The customers entered by an arc of a set.
Destinos(arcos) == {a[2] : a \in arcos} \ {0}

\* Every customer is the target of arcs of exactly one of the two sets.
Consistente(n, caminhao, drone) ==
    \A j \in Clientes(n) : (j \in Destinos(caminhao)) # (j \in Destinos(drone))

\* An extraction that validates its result, as a SolutionExtractor would.
ExtractArcs_valida ==
    /\ pc = "optimized" /\ status = "OPTIMAL"
    /\ arcos_caminhao' = {a \in Arcs(model.n) : a \in x}
    /\ arcos_drone' = {a \in Arcs(model.n) : a \in y}
    /\ IF Consistente(model.n, x, y)
       THEN pc' = "plot" /\ erro' = erro
       ELSE pc' = "crashed" /\ erro' = "inconsistente"
    /\ UNCHANGED <<numFiles, idx, inputVars, solveVars, saved>>

\* plot_rota, step 1: the selected arcs.
ExtractArcs ==
    /\ pc = "optimized" /\ status = "OPTIMAL"
    /\ arcos_caminhao' = {a \in Arcs(model.n) : a \in x}
    /\ arcos_drone' = {a \in Arcs(model.n) : a \in y}
    /\ pc' = "plot"
    /\ UNCHANGED <<numFiles, idx, inputVars, solveVars, saved, erro>>

\* plot_rota, drawing and savefig.
SaveFigure ==
    /\ pc = "plot"
    /\ saved' = TRUE
    /\ pc' = "fim"
    /\ UNCHANGED <<numFiles, idx, inputVars, solveVars, arcos_caminhao,
                   arcos_drone, erro>>

\* os.makedirs / savefig raise (OSError): caught nowhere.
RenderError ==
    /\ pc = "plot"
    /\ pc' = "crashed" /\ erro' = "render"
    /\ UNCHANGED <<numFiles, idx, inputVars, solveVars, plotVars>>

\* End of the loop body: the next iteration overwrites every local.
NextIteration ==
    /\ pc = "fim"
    /\ pc' = "loop"
    /\ R' = None /\ K' = None /\ coordenadas' = <<>>
    /\ model' = NoModel
    /\ status' = "" /\ solCount' = 0 /\ x' = {} /\ y' = {} /\ objVal' = 0
    /\ arcos_caminhao' = {} /\ arcos_drone' = {}
    /\ saved' = FALSE /\ erro' = ""
    /\ UNCHANGED <<numFiles, idx>>

LoopExit ==
    /\ pc = "loop" /\ idx = numFiles
    /\ pc' = "exit"
    /\ UNCHANGED <<numFiles, idx, inputVars, solveVars, plotVars, erro>>

Next ==
    \/ ParseInput
    \/ CreateModel
    \/ CreateModelFails
    \/ BuildModel
    \/ SolverError
    \/ OptimizeOptimal
    \/ OptimizeTimeLimit
    \/ OptimizeNoSolution
    \/ NotOptimal
    \/ ExtractArcs
    \/ SaveFigure
    \/ RenderError
    \/ NextIteration
    \/ LoopExit

Spec == Init /\ [][Next]_vars

-----------------------------------------------------------------------------
(* Properties.                                                              *)

n == Len(coordenadas)

\* x and y hold values returned by optimize().
TemSolucao == solCount = 1

TruckServed(j) == InSum(n, x, j) >= 1
DroneServed(j) == InSum(n, y, j) >= 1

\* C1: in every assignment satisfying all constraints, each customer has a
\* selected incoming truck arc or a selected incoming drone arc (from any
\* node, the depot included), never both and never neither.
C1_VisitXor ==
    TemSolucao => \A j \in Clientes(n) : TruckServed(j) # DroneServed(j)

\* Nodes reached from the nodes of s by selected truck arcs.
RECURSIVE Alcanca(_, _)
Alcanca(xs, s) ==
    LET t == s \cup {a[2] : a \in {b \in xs : b[1] \in s}} IN
    IF t = s THEN s ELSE Alcanca(xs, t)

Visitados(xs) == {a[1] : a \in xs} \cup {a[2] : a \in xs}

\* C2: in every assignment satisfying all constraints the selected truck
\* arcs form one closed walk through the depot and every truck-visited node
\* with no smaller cycle: every node with a truck arc is entered and left
\* exactly once, the depot included, and is reached from the depot.
C2_SingleTour ==
    (TemSolucao /\ x # {}) =>
        /\ 0 \in Visitados(x)
        /\ \A v \in Visitados(x) : InSum(n, x, v) = 1 /\ OutSum(n, x, v) = 1
        /\ Visitados(x) \subseteq Alcanca(x, {0})

\* C3: in every assignment satisfying all constraints, the launch node of
\* each selected drone arc is the depot or has a selected incoming truck
\* arc; a customer the truck never enters launches no drone arc.
C3_LaunchSync ==
    TemSolucao =>
        /\ \A a \in y : a[1] = 0 \/ TruckServed(a[1])
        /\ \A k \in Clientes(n) : ~TruckServed(k) => OutSum(n, y, k) = 0

C3_Witness ==
    TemSolucao /\ \E a \in y : a[1] # 0 /\ a[2] # 0 /\ ~TruckServed(a[2])

\* C4: in every assignment satisfying all constraints, every selected drone
\* arc, arcs leaving the depot included, has Euclidean length at most R
\* (squared length at most R*R).
C4_Radius ==
    TemSolucao =>
        \A a \in y :
            R >= 0 /\ Dist2(coordenadas[a[1] + 1], coordenadas[a[2] + 1]) <= R * R

C4_Witness ==
    /\ TemSolucao
    /\ \E a \in y : a[1] = 0 /\ coordenadas[a[1] + 1] # coordenadas[a[2] + 1]
    /\ \E b \in Arcs(n) : Dist2(coordenadas[b[1] + 1], coordenadas[b[2] + 1]) > R * R

C6_FailuresInstanceScoped ==
    pc \in {"exit", "crashed"} => idx = numFiles

\* C7: an instance with the depot alone runs through parse, solve and plot:
\* the model is feasible, every returned assignment selects no arc and has
\* objective 0, and unless the engine is unavailable or stopped by its time
\* limit the instance ends with its image saved and both arc sets empty.
C7_DepotOnly ==
    n = 1 =>
        /\ TemSolucao => x = {} /\ y = {} /\ objVal = 0
        /\ pc = "fim" =>
              \/ erro = "licenca"
              \/ status = "TIME_LIMIT"
              \/ /\ status = "OPTIMAL" /\ saved
                 /\ arcos_caminhao = {} /\ arcos_drone = {}

C7_Witness ==
    n = 1 /\ pc = "fim" /\ status = "OPTIMAL" /\ saved /\ objVal = 0

Distintas(coords) ==
    \A i \in 1..Len(coords) : \A j \in 1..Len(coords) :
        i # j => coords[i] # coords[j]

\* C8 as stated: for R = 0 and any node set, every optimal solution selects
\* no drone arc and reaches every customer by a truck arc.
C8_TruckOnly ==
    (status = "OPTIMAL" /\ R = 0) =>
        y = {} /\ \A j \in Clientes(n) : TruckServed(j)

\* C8 amended: for R = 0, K > 0 and nodes with pairwise distinct
\* coordinates, every optimal solution selects no drone arc and reaches
\* every customer by a truck arc.
C8_TruckOnlyDistinct ==
    (status = "OPTIMAL" /\ R = 0 /\ K > 0 /\ Distintas(coordenadas)) =>
        y = {} /\ \A j \in Clientes(n) : TruckServed(j)

C8_Witness ==
    /\ status = "OPTIMAL" /\ R = 0 /\ K = MaxK /\ n >= 3
    /\ Distintas(coordenadas)
    /\ \A j \in Clientes(n) : TruckServed(j)

\* Truck tours: the orders in which the customers of s are visited.
Tours(s) ==
    {p \in [1..Cardinality(s) -> s] :
        \A i \in DOMAIN p : \A j \in DOMAIN p : i # j => p[i] # p[j]}

RECURSIVE Trecho(_, _, _)
Trecho(coords, p, k) ==
    IF k > Len(p) THEN 0
    ELSE distancia(coords[(IF k = 1 THEN 0 ELSE p[k - 1]) + 1], coords[p[k] + 1])
         + Trecho(coords, p, k + 1)

TourLen(coords, p) ==
    IF Len(p) = 0 THEN 0
    ELSE Trecho(coords, p, 1) + distancia(coords[p[Len(p)] + 1], coords[1])

MinTour(coords, s) ==
    LET ls == {TourLen(coords, p) : p \in Tours(s)} IN
    CHOOSE l \in ls : \A m \in ls : l <= m

\* 2 * distance(depot, customer 1) is below K times the extra distance of
\* every truck tour that visits customer 1.
DroneMaisBarato ==
    \A p \in Tours(Clientes(n)) :
        2 * distancia(coordenadas[1], coordenadas[2])
          < K * (TourLen(coordenadas, p) - MinTour(coordenadas, Clientes(n) \ {1}))

\* C9: in scenario B the optimal solution serves the near customer (1,0)
\* by a drone arc when 2 * distance(depot, (1,0)) is below K times the
\* extra distance of every truck detour visiting it, and by a truck arc
\* otherwise.
C9_ScenarioB ==
    (status = "OPTIMAL" /\ coordenadas = CoordsB /\ R = 5 /\ K = 3) =>
        IF DroneMaisBarato
        THEN DroneServed(1) /\ ~TruckServed(1)
        ELSE TruckServed(1) /\ ~DroneServed(1)

C9_Witness ==
    /\ status = "OPTIMAL" /\ coordenadas = CoordsB /\ R = 5 /\ K = 3
    /\ pc = "fim" /\ saved /\ TruckServed(1)

\* C10: for n >= 2, in every assignment satisfying all constraints the
\* truck leaves the depot and enters at least one customer, so not every
\* customer is served by drone; for n = 2 the customer is served by truck.
C10_TruckLeavesDepot ==
    (TemSolucao /\ n >= 2) =>
        /\ \E j \in Clientes(n) : <<0, j>> \in x
        /\ \E j \in Clientes(n) : TruckServed(j)
        /\ n = 2 => <<0, 1>> \in x

C10_Witness ==
    /\ TemSolucao /\ n >= 3
    /\ \E j \in Clientes(n) : ~TruckServed(j) /\ DroneServed(j)
    /\ \E j \in Clientes(n) : <<0, j>> \in y

====
